---- MODULE Spec2Model ----
(***************************************************************************)
(* Outbound API gateway (oagw): the authentication plugins                 *)
(* (infra/plugin/apikey_auth.rs, infra/plugin/noop_auth.rs), the           *)
(* AuthContext they mutate (domain/plugin/mod.rs), the credstore test      *)
(* doubles (domain/test_support.rs) and the data-plane proxy pipeline      *)
(* that calls them.                                                        *)
(*                                                                         *)
(* A Rust String is modelled as what it is, a sequence of UTF-8 bytes; a   *)
(* HashMap<String, String> as a function whose domain is a finite set of   *)
(* such sequences.                                                         *)
(***************************************************************************)
EXTENDS Integers, Sequences, FiniteSets, TLC

VARIABLES
    ctx,      \* the AuthContext handed to the plugin: headers, config, security_context
    before,   \* the same AuthContext as it was when the last call started
    store,    \* the credstore behind CredStoreClientV1: SecretRef -> answer of get
    plugin,   \* which plugin ran last on ctx: "none", "apikey", "noop"
    result,   \* what the last authenticate call returned
    calls,    \* the credstore get calls made by the last call, in order
    pc,       \* "idle": no call in progress; "built": a context awaits its plugin; "done"
    proxy     \* the record of the last proxy call through the pipeline

vars == <<ctx, before, store, plugin, result, calls, pc, proxy>>

----------------------------------------------------------------------------
(* Text used by the model, as UTF-8 bytes.                                 *)

CRED_SCHEME == <<99, 114, 101, 100, 58, 47, 47>>          \* "cred://"
STR_EMPTY   == << >>                                       \* ""
STR_K       == <<107>>                                     \* "k"
STR_M       == <<109>>                                     \* "m"
STR_BEARER  == <<66, 101, 97, 114, 101, 114, 32>>          \* "Bearer "
STR_OLD     == <<111, 108, 100>>                           \* "old"
HDR_XKEY_MIXED == <<88, 45, 75, 101, 121>>                 \* "X-Key"
HDR_XKEY_LOWER == <<120, 45, 107, 101, 121>>               \* "x-key"
HDR_XKEY_UPPER == <<88, 45, 75, 69, 89>>                   \* "X-KEY"
HDR_OTHER      == <<118, 105, 97>>                         \* "via"

SECRET_TEXT      == <<115, 107, 45, 49>>                   \* "sk-1"
SECRET_TWO_BYTE  == <<195, 169>>                           \* U+00E9, valid UTF-8
SECRET_BAD       == <<255, 254>>                           \* [0xFF, 0xFE]
SECRET_TRUNCATED == <<226, 130>>                           \* a 3-byte sequence cut short

----------------------------------------------------------------------------
(* Library functions the plugin calls, computed as they compute.           *)

\* str::strip_prefix: Some(rest) when s starts with p, None otherwise.
StartsWith(s, p) ==
    /\ Len(s) >= Len(p)
    /\ SubSeq(s, 1, Len(p)) = p

\* raw_ref as it would be if the scheme were left in place
raw_ref_Unstripped(secret_ref) == secret_ref

\* config.secret_ref.strip_prefix("cred://").unwrap_or(&config.secret_ref)
raw_ref(secret_ref) ==
    IF StartsWith(secret_ref, CRED_SCHEME)
    THEN SubSeq(secret_ref, Len(CRED_SCHEME) + 1, Len(secret_ref))
    ELSE secret_ref

\* String::to_lowercase on ASCII text: A-Z become a-z, every other byte stays.
to_lowercase(s) ==
    [i \in 1..Len(s) |-> IF s[i] \in 65..90 THEN s[i] + 32 ELSE s[i]]

\* std::str::from_utf8: whether the bytes form well-formed UTF-8.
IsCont(b) == b \in 128..191

RECURSIVE from_utf8_ok(_)
from_utf8_ok(b) ==
    IF Len(b) = 0 THEN TRUE
    ELSE LET b1 == b[1]
             n  == Len(b)
         IN  IF b1 \in 0..127 THEN from_utf8_ok(SubSeq(b, 2, n))
             ELSE IF b1 \in 194..223
                  THEN n >= 2 /\ IsCont(b[2]) /\ from_utf8_ok(SubSeq(b, 3, n))
             ELSE IF b1 \in 224..239
                  THEN /\ n >= 3
                       /\ IF b1 = 224 THEN b[2] \in 160..191
                          ELSE IF b1 = 237 THEN b[2] \in 128..159
                          ELSE IsCont(b[2])
                       /\ IsCont(b[3])
                       /\ from_utf8_ok(SubSeq(b, 4, n))
             ELSE IF b1 \in 240..244
                  THEN /\ n >= 4
                       /\ IF b1 = 240 THEN b[2] \in 144..191
                          ELSE IF b1 = 244 THEN b[2] \in 128..143
                          ELSE IsCont(b[2])
                       /\ IsCont(b[3])
                       /\ IsCont(b[4])
                       /\ from_utf8_ok(SubSeq(b, 5, n))
             ELSE FALSE

\* Insert as it would be if the map were rebuilt around the new entry
Insert_Rebuilding(m, k, v) == [x \in {k} |-> v]

\* HashMap::insert: the entry under k is v afterwards, every other entry stays.
Insert(m, k, v) ==
    [x \in (DOMAIN m) \cup {k} |-> IF x = k THEN v ELSE m[x]]

EmptyMap == [x \in {} |-> << >>]

----------------------------------------------------------------------------
(* credstore_sdk::SecretRef::new: the validated reference.  A reference is *)
(* accepted when it is not empty and holds only letters, digits, '-' and   *)
(* '_'.                                                                    *)

RefChar(b) == b \in (48..57) \cup (65..90) \cup (97..122) \cup {45, 95}

SecretRef_new(s) ==
    /\ Len(s) > 0
    /\ \A i \in 1..Len(s) : RefChar(s[i])

----------------------------------------------------------------------------
(* PluginError, and the Result of authenticate.                            *)

Ok == [kind |-> "Ok", msg |-> "", ref |-> STR_EMPTY]
SecretNotFound(secret_ref) == [kind |-> "SecretNotFound", msg |-> "", ref |-> secret_ref]
Internal(m) == [kind |-> "Internal", msg |-> m, ref |-> STR_EMPTY]
NotCalled == [kind |-> "NotCalled", msg |-> "", ref |-> STR_EMPTY]

(* The answers of CredStoreClientV1::get.                                  *)
GetErr == [tag |-> "Err", value |-> << >>]
GetNone == [tag |-> "None", value |-> << >>]
GetSome(bytes) == [tag |-> "Some", value |-> bytes]

----------------------------------------------------------------------------
(* ApiKeyAuthPlugin::authenticate, step by step.                           *)

\* ApiKeyConfig as it would be without #[serde(default)] on prefix
ApiKeyConfig_PrefixRequired(config) ==
    IF {"header", "prefix", "secret_ref"} \subseteq DOMAIN config
    THEN [ok |-> TRUE, header |-> config["header"], prefix |-> config["prefix"],
          secret_ref |-> config["secret_ref"]]
    ELSE [ok |-> FALSE, header |-> STR_EMPTY, prefix |-> STR_EMPTY, secret_ref |-> STR_EMPTY]

\* serde_json::from_value::<ApiKeyConfig>: header and secret_ref are required,
\* prefix has #[serde(default)], keys that are no field are ignored.
ApiKeyConfig(config) ==
    IF "header" \in DOMAIN config /\ "secret_ref" \in DOMAIN config
    THEN [ok         |-> TRUE,
          header     |-> config["header"],
          prefix     |-> IF "prefix" \in DOMAIN config THEN config["prefix"] ELSE STR_EMPTY,
          secret_ref |-> config["secret_ref"]]
    ELSE [ok |-> FALSE, header |-> STR_EMPTY, prefix |-> STR_EMPTY, secret_ref |-> STR_EMPTY]

\* credstore_err as it would be if a store failure were reported as a missing secret
credstore_err_AsNotFound == SecretNotFound(STR_EMPTY)

\* .map_err(|e| PluginError::Internal(format!("credstore error: {e}")))
credstore_err == Internal("credstore error")

\* secret_absent as it would be if a missing secret were folded into Internal
secret_absent_AsInternal(config) == Internal("secret not found")

\* .ok_or_else(|| PluginError::SecretNotFound(config.secret_ref.clone()))
secret_absent(config) == SecretNotFound(config.secret_ref)

\* secret_str as it would be with a best-effort decoding that never fails
secret_str_Lossy(bytes) == [ok |-> TRUE, text |-> bytes]

\* std::str::from_utf8(response.value.as_bytes()).map_err(..)?.to_string()
secret_str(bytes) ==
    IF from_utf8_ok(bytes)
    THEN [ok |-> TRUE, text |-> bytes]
    ELSE [ok |-> FALSE, text |-> STR_EMPTY]

\* header_value as it would be if the prefix were dropped
header_value_NoPrefix(config, text) == text

\* format!("{}{}", config.prefix, secret_str)
header_value(config, text) == config.prefix \o text

\* header_key as it would be if the name were stored as configured
header_key_AsConfigured(config) == config.header

\* config.header.to_lowercase()
header_key(config) == to_lowercase(config.header)

\* credstore_get as it would be if the lookup were made under a fixed identity
credstore_get_Unscoped(c, key) ==
    <<[security_context |-> "tenant-a", key |-> key]>>

\* self.credstore.get(&ctx.security_context, &key): the call as the store sees it
credstore_get(c, key) ==
    <<[security_context |-> c.security_context, key |-> key]>>

\* authenticate as it would be if it wrote the prefix under the header first and
\* appended the secret once it had it
ApiKeyAuthPlugin_authenticate_EagerInsert(c, st) ==
    LET config == ApiKeyConfig(c.config) IN
    IF ~config.ok
    THEN [result |-> Internal("invalid apikey auth config"), headers |-> c.headers, calls |-> << >>]
    ELSE
    LET raw   == raw_ref(config.secret_ref)
        eager == Insert(c.headers, header_key(config), config.prefix)
    IN
    IF ~SecretRef_new(raw)
    THEN [result |-> Internal("invalid secret ref"), headers |-> eager, calls |-> << >>]
    ELSE
    LET get      == credstore_get(c, raw)
        response == st[raw]
    IN
    IF response.tag = "Err"
    THEN [result |-> credstore_err, headers |-> eager, calls |-> get]
    ELSE IF response.tag = "None"
    THEN [result |-> secret_absent(config), headers |-> eager, calls |-> get]
    ELSE
    LET s == secret_str(response.value) IN
    IF ~s.ok
    THEN [result |-> Internal("secret value is not valid UTF-8"), headers |-> eager, calls |-> get]
    ELSE [result  |-> Ok,
          headers |-> Insert(c.headers, header_key(config), header_value(config, s.text)),
          calls   |-> get]

\* The call as a whole: what it returns, the headers it leaves, the get calls it makes.
ApiKeyAuthPlugin_authenticate(c, st) ==
    LET config == ApiKeyConfig(c.config) IN
    IF ~config.ok
    THEN [result |-> Internal("invalid apikey auth config"), headers |-> c.headers, calls |-> << >>]
    ELSE
    LET raw == raw_ref(config.secret_ref) IN
    IF ~SecretRef_new(raw)
    THEN [result |-> Internal("invalid secret ref"), headers |-> c.headers, calls |-> << >>]
    ELSE
    LET get      == credstore_get(c, raw)
        response == st[raw]
    IN
    IF response.tag = "Err"
    THEN [result |-> credstore_err, headers |-> c.headers, calls |-> get]
    ELSE IF response.tag = "None"
    THEN [result |-> secret_absent(config), headers |-> c.headers, calls |-> get]
    ELSE
    LET s == secret_str(response.value) IN
    IF ~s.ok
    THEN [result |-> Internal("secret value is not valid UTF-8"), headers |-> c.headers, calls |-> get]
    ELSE [result  |-> Ok,
          headers |-> Insert(c.headers, header_key(config), header_value(config, s.text)),
          calls   |-> get]

\* NoopAuthPlugin::authenticate as it would be if it reset the headers
NoopAuthPlugin_authenticate_Clearing(c, st) ==
    [result |-> Ok, headers |-> EmptyMap, calls |-> << >>]

(* NoopAuthPlugin::authenticate.                                           *)
NoopAuthPlugin_authenticate(c, st) ==
    [result |-> Ok, headers |-> c.headers, calls |-> << >>]

----------------------------------------------------------------------------
(* The inputs.                                                             *)

MaxHeaders == 2      \* entries of the headers map a context starts with

HeaderNames  == {HDR_XKEY_MIXED, HDR_XKEY_LOWER, HDR_XKEY_UPPER, HDR_OTHER}
StartNames   == {HDR_XKEY_MIXED, HDR_XKEY_LOWER, HDR_OTHER}
Prefixes     == {STR_EMPTY, STR_BEARER}
SecretRefs   == {STR_K, CRED_SCHEME \o STR_K, CRED_SCHEME \o CRED_SCHEME \o STR_K,
                 STR_M, STR_EMPTY, CRED_SCHEME}
SecurityContexts == {"tenant-a", "tenant-b"}

\* every HashMap<String, String> a config can be: each field present or absent
FieldValues(field) ==
    IF field = "header" THEN HeaderNames
    ELSE IF field = "prefix" THEN Prefixes
    ELSE SecretRefs

Configs ==
    UNION { { c \in [fields -> HeaderNames \cup Prefixes \cup SecretRefs] :
              \A f \in fields : c[f] \in FieldValues(f) } :
            fields \in SUBSET {"header", "prefix", "secret_ref"} }

HeaderMaps ==
    UNION { [names -> {STR_OLD}] :
            names \in {n \in SUBSET StartNames : Cardinality(n) <= MaxHeaders} }

\* the references SecretRef::new accepts, among those the configs can name
StoreKeys == {r \in {raw_ref(s) : s \in SecretRefs} : SecretRef_new(r)}

Answers == {GetErr, GetNone, GetSome(SECRET_TEXT), GetSome(SECRET_TWO_BYTE),
            GetSome(SECRET_BAD), GetSome(SECRET_TRUNCATED)}

AuthContext(headers, config, security_context) ==
    [headers |-> headers, config |-> config, security_context |-> security_context]

NoProxy ==
    [route |-> "", evaluated |-> FALSE, allow |-> FALSE, deny_reason |-> "",
     outcome |-> "None", kind |-> "", dispatched |-> FALSE]

----------------------------------------------------------------------------
(* The data-plane proxy pipeline: route resolution, upstream resolution,   *)
(* authorization, authentication through the upstream's plugin, dispatch.  *)

CONFIG_CHAT ==
    [f \in {"header", "prefix", "secret_ref"} |->
        IF f = "header" THEN HDR_XKEY_MIXED
        ELSE IF f = "prefix" THEN STR_BEARER
        ELSE CRED_SCHEME \o STR_K]

CONFIG_BARE ==
    [f \in {"header", "secret_ref"} |-> IF f = "header" THEN HDR_XKEY_LOWER ELSE STR_M]

\* the registry: upstream id -> auth_plugin_id and auth_plugin_config
Upstreams ==
    [u \in {"up-chat", "up-bare", "up-open", "up-odd"} |->
        IF u = "up-chat" THEN [auth_plugin_id |-> "apikey", auth_plugin_config |-> CONFIG_CHAT]
        ELSE IF u = "up-bare" THEN [auth_plugin_id |-> "apikey", auth_plugin_config |-> CONFIG_BARE]
        ELSE IF u = "up-open" THEN [auth_plugin_id |-> "noop", auth_plugin_config |-> EmptyMap]
        ELSE [auth_plugin_id |-> "unregistered", auth_plugin_config |-> EmptyMap]]

\* the registry: route key -> upstream id ("up-gone" names no upstream)
Routes ==
    [r \in {"/chat", "/bare", "/open", "/odd", "/dangling"} |->
        IF r = "/chat" THEN "up-chat"
        ELSE IF r = "/bare" THEN "up-bare"
        ELSE IF r = "/open" THEN "up-open"
        ELSE IF r = "/odd" THEN "up-odd"
        ELSE "up-gone"]

RouteKeys == (DOMAIN Routes) \cup {"/nowhere"}
Decisions == [allow : BOOLEAN, deny_reason : {"", "not permitted"}]
\* inbound header names reach the pipeline in lowercase
InboundHeaders ==
    {h \in HeaderMaps : Cardinality(DOMAIN h) <= 1 /\ \A n \in DOMAIN h : n = to_lowercase(n)}
Transports == {"ok", "timeout", "refused"}

\* what a proxy call leaves behind: its record, the context it built and what the plugin did
Outcome(route_key, decision, evaluated, outcome, kind, dispatched, c, headers, ran, res, gets) ==
    [proxy  |-> [route |-> route_key, evaluated |-> evaluated,
                 allow |-> evaluated /\ decision.allow,
                 deny_reason |-> IF evaluated THEN decision.deny_reason ELSE "",
                 outcome |-> outcome, kind |-> kind, dispatched |-> dispatched],
     before |-> c,
     ctx    |-> [c EXCEPT !.headers = headers],
     plugin |-> ran,
     result |-> res,
     calls  |-> gets]

\* steps 4 to 7: plugin lookup, authenticate, size limit, bounded dispatch
Authenticating(route_key, decision, up, security_context, inbound, oversized, transport, st) ==
    LET c == AuthContext(inbound, up.auth_plugin_config, security_context) IN
    IF up.auth_plugin_id \notin {"apikey", "noop"}
    THEN Outcome(route_key, decision, TRUE, "AuthenticationFailed", "Internal", FALSE,
                 c, c.headers, "none", NotCalled, << >>)
    ELSE
    LET a == IF up.auth_plugin_id = "apikey"
             THEN ApiKeyAuthPlugin_authenticate(c, st)
             ELSE NoopAuthPlugin_authenticate(c, st)
    IN
    IF a.result.kind # "Ok"
    THEN Outcome(route_key, decision, TRUE, "AuthenticationFailed", a.result.kind, FALSE,
                 c, a.headers, up.auth_plugin_id, a.result, a.calls)
    ELSE IF oversized
    THEN Outcome(route_key, decision, TRUE, "PayloadTooLarge", "", FALSE,
                 c, a.headers, up.auth_plugin_id, a.result, a.calls)
    ELSE Outcome(route_key, decision, TRUE,
                 IF transport = "ok" THEN "Completed"
                 ELSE IF transport = "timeout" THEN "Timeout"
                 ELSE "UpstreamUnavailable",
                 "", TRUE, c, a.headers, up.auth_plugin_id, a.result, a.calls)

\* the pipeline as it would be if it authenticated before it authorized
Pipeline_AuthenticateFirst(route_key, decision, security_context, inbound, oversized, transport, st) ==
    LET none == AuthContext(EmptyMap, EmptyMap, security_context) IN
    IF route_key \notin DOMAIN Routes
    THEN Outcome(route_key, decision, FALSE, "RouteNotFound", "", FALSE,
                 none, none.headers, "none", NotCalled, << >>)
    ELSE IF Routes[route_key] \notin DOMAIN Upstreams
    THEN Outcome(route_key, decision, FALSE, "UpstreamNotFound", "", FALSE,
                 none, none.headers, "none", NotCalled, << >>)
    ELSE
    LET o == Authenticating(route_key, decision, Upstreams[Routes[route_key]],
                            security_context, inbound, oversized, transport, st)
    IN  IF decision.allow THEN o
        ELSE [o EXCEPT !.proxy.outcome = "Forbidden", !.proxy.kind = "",
                       !.proxy.dispatched = FALSE]

\* steps 1 to 3, then the rest
Pipeline(route_key, decision, security_context, inbound, oversized, transport, st) ==
    LET none == AuthContext(EmptyMap, EmptyMap, security_context) IN
    IF route_key \notin DOMAIN Routes
    THEN Outcome(route_key, decision, FALSE, "RouteNotFound", "", FALSE,
                 none, none.headers, "none", NotCalled, << >>)
    ELSE IF Routes[route_key] \notin DOMAIN Upstreams
    THEN Outcome(route_key, decision, FALSE, "UpstreamNotFound", "", FALSE,
                 none, none.headers, "none", NotCalled, << >>)
    ELSE IF ~decision.allow
    THEN Outcome(route_key, decision, TRUE, "Forbidden", "", FALSE,
                 none, none.headers, "none", NotCalled, << >>)
    ELSE Authenticating(route_key, decision, Upstreams[Routes[route_key]],
                        security_context, inbound, oversized, transport, st)

----------------------------------------------------------------------------
(* The state machine.  An AuthContext lives for one call: it is built,     *)
(* handed to one plugin and dropped.                                       *)

Init ==
    /\ store \in [StoreKeys -> Answers]
    /\ pc = "idle"
    /\ ctx = AuthContext(EmptyMap, EmptyMap, "tenant-a")
    /\ before = ctx
    /\ plugin = "none"
    /\ result = NotCalled
    /\ calls = << >>
    /\ proxy = NoProxy

\* an AuthContext is built for a call (AuthContext { headers, config, security_context })
MakeAuthCtx ==
    /\ pc = "idle"
    /\ \E headers \in HeaderMaps, config \in Configs, security_context \in SecurityContexts :
        /\ ctx' = AuthContext(headers, config, security_context)
        /\ before' = ctx'
    /\ pc' = "built"
    /\ UNCHANGED <<store, plugin, result, calls, proxy>>

\* plugin.authenticate(&mut ctx) with the api-key plugin
ApiKeyAuth ==
    /\ pc = "built"
    /\ LET a == ApiKeyAuthPlugin_authenticate(ctx, store) IN
        /\ before' = ctx
        /\ ctx' = [ctx EXCEPT !.headers = a.headers]
        /\ result' = a.result
        /\ calls' = a.calls
    /\ plugin' = "apikey"
    /\ pc' = "done"
    /\ UNCHANGED <<store, proxy>>

\* plugin.authenticate(&mut ctx) with the no-op plugin
NoopAuth ==
    /\ pc = "built"
    /\ LET a == NoopAuthPlugin_authenticate(ctx, store) IN
        /\ before' = ctx
        /\ ctx' = [ctx EXCEPT !.headers = a.headers]
        /\ result' = a.result
        /\ calls' = a.calls
    /\ plugin' = "noop"
    /\ pc' = "done"
    /\ UNCHANGED <<store, proxy>>

\* one proxy call through the pipeline
Proxy ==
    /\ pc = "idle"
    /\ \E route_key \in RouteKeys, decision \in Decisions, security_context \in SecurityContexts,
          inbound \in InboundHeaders, oversized \in BOOLEAN, transport \in Transports :
        LET o == Pipeline(route_key, decision, security_context, inbound,
                          oversized, transport, store)
        IN  /\ proxy' = o.proxy
            /\ before' = o.before
            /\ ctx' = o.ctx
            /\ plugin' = o.plugin
            /\ result' = o.result
            /\ calls' = o.calls
    /\ pc' = "done"
    /\ UNCHANGED store

\* the call is over and its AuthContext is dropped
Discard ==
    /\ pc = "done"
    /\ pc' = "idle"
    /\ ctx' = AuthContext(EmptyMap, EmptyMap, "tenant-a")
    /\ before' = ctx'
    /\ plugin' = "none"
    /\ result' = NotCalled
    /\ calls' = << >>
    /\ proxy' = NoProxy
    /\ UNCHANGED store

Next == MakeAuthCtx \/ ApiKeyAuth \/ NoopAuth \/ Proxy \/ Discard

Spec == Init /\ [][Next]_vars

----------------------------------------------------------------------------
(* Vocabulary of the properties.                                           *)

\* the api-key plugin has just returned from authenticate
ApiKeyReturned == pc = "done" /\ plugin = "apikey"

\* the config of that call has both required fields
HasRequiredFields == {"header", "secret_ref"} \subseteq DOMAIN before.config

\* the prefix the config gives, the empty string when it gives none
GivenPrefix ==
    IF "prefix" \in DOMAIN before.config THEN before.config["prefix"] ELSE STR_EMPTY

\* the answer the store has for the normalized reference of the call's config
StoreAnswers(tag) ==
    /\ HasRequiredFields
    /\ raw_ref(before.config["secret_ref"]) \in DOMAIN store
    /\ store[raw_ref(before.config["secret_ref"])].tag = tag

StoredBytes == store[raw_ref(before.config["secret_ref"])].value

\* two names that differ at most in the case of their ASCII letters
FoldCase(b) == IF b \in 97..122 THEN b - 32 ELSE b

EqIgnoreCase(a, b) ==
    /\ Len(a) = Len(b)
    /\ \A i \in 1..Len(a) : FoldCase(a[i]) = FoldCase(b[i])

WellFormedSecrets == {SECRET_TEXT, SECRET_TWO_BYTE}
MalformedSecrets  == {SECRET_BAD, SECRET_TRUNCATED}

----------------------------------------------------------------------------
\* C1: a proxy call whose policy evaluation answers allow = false, with or
\* without a deny_reason, fails as Forbidden, dispatches nothing and makes no
\* credstore get call.
C1_DenialBeforeSecretLookup ==
    (pc = "done" /\ proxy.evaluated /\ ~proxy.allow) =>
        /\ proxy.outcome = "Forbidden"
        /\ ~proxy.dispatched
        /\ Len(calls) = 0
        /\ plugin = "none"

\* a call denied without a reason on a route whose plugin would have found its secret
C1_Witness ==
    /\ pc = "done"
    /\ proxy.route = "/chat"
    /\ proxy.evaluated /\ ~proxy.allow /\ proxy.deny_reason = ""
    /\ proxy.outcome = "Forbidden"
    /\ store[STR_K] = GetSome(SECRET_TEXT)

\* C2: with header and secret_ref configured and a well-formed UTF-8 secret
\* stored under the normalized reference, authenticate returns Ok and the
\* entry under the lowercased header is exactly prefix followed by the secret.
C2_InjectsPrefixThenSecret ==
    (ApiKeyReturned /\ StoreAnswers("Some") /\ StoredBytes \in WellFormedSecrets) =>
        /\ result = Ok
        /\ to_lowercase(before.config["header"]) \in DOMAIN ctx.headers
        /\ ctx.headers[to_lowercase(before.config["header"])] = GivenPrefix \o StoredBytes

\* "X-Key", "Bearer ", "sk-1" gives x-key: "Bearer sk-1"
C2_Witness ==
    /\ ApiKeyReturned /\ result = Ok
    /\ HasRequiredFields
    /\ before.config["header"] = HDR_XKEY_MIXED
    /\ GivenPrefix = STR_BEARER
    /\ HDR_XKEY_LOWER \in DOMAIN ctx.headers
    /\ ctx.headers[HDR_XKEY_LOWER] = STR_BEARER \o SECRET_TEXT

\* C3: when get answers Ok(None) for the normalized reference, authenticate
\* returns SecretNotFound carrying the secret_ref as configured.
C3_AbsentSecretIsSecretNotFound ==
    (ApiKeyReturned /\ StoreAnswers("None")) =>
        result = SecretNotFound(before.config["secret_ref"])

\* the reference was configured with its scheme, and comes back with it
C3_Witness ==
    /\ ApiKeyReturned /\ StoreAnswers("None")
    /\ before.config["secret_ref"] = CRED_SCHEME \o STR_K
    /\ result.kind = "SecretNotFound"
    /\ result.ref = CRED_SCHEME \o STR_K

\* C4: when the stored bytes are not well-formed UTF-8, authenticate returns
\* Internal and the headers are what they were: no value is written.
C4_MalformedSecretIsInternal ==
    (ApiKeyReturned /\ StoreAnswers("Some") /\ StoredBytes \in MalformedSecrets) =>
        /\ result.kind = "Internal"
        /\ ctx.headers = before.headers

\* the secret is [0xFF, 0xFE]
C4_Witness ==
    /\ ApiKeyReturned /\ StoreAnswers("Some")
    /\ StoredBytes = SECRET_BAD
    /\ result.kind = "Internal"

\* the same call with one field of the config replaced
WithField(field, value) ==
    ApiKeyAuthPlugin_authenticate(
        [before EXCEPT !.config = [f \in (DOMAIN before.config) \cup {field} |->
                                      IF f = field THEN value ELSE before.config[f]]],
        store)

\* C5: for a name k written without the scheme, the call configured with
\* secret_ref = "cred://k" asks the store for the same key as the call
\* configured with secret_ref = "k", and ends the same way: the same kind of
\* result and the same headers.
C5_SchemeAndBareResolveAlike ==
    (ApiKeyReturned /\ HasRequiredFields
        /\ ~StartsWith(before.config["secret_ref"], CRED_SCHEME)) =>
        LET k      == before.config["secret_ref"]
            scheme == WithField("secret_ref", CRED_SCHEME \o k)
        IN  /\ scheme.calls = calls
            /\ scheme.result.kind = result.kind
            /\ scheme.headers = ctx.headers

\* the bare call injected the secret, so the call with the scheme must have too
C5_Witness ==
    /\ ApiKeyReturned /\ HasRequiredFields
    /\ before.config["secret_ref"] = STR_K
    /\ result = Ok
    /\ Len(calls) = 1 /\ calls[1].key = STR_K
    /\ WithField("secret_ref", CRED_SCHEME \o STR_K).result = Ok

\* C6: two configs that differ only in the letter case of header, run on the
\* same starting context and store, both succeed or both fail, and when they
\* succeed they leave equal headers maps.
C6_HeaderCaseDoesNotMatter ==
    (ApiKeyReturned /\ result = Ok) =>
        \A h \in HeaderNames :
            EqIgnoreCase(h, before.config["header"]) =>
                /\ WithField("header", h).result = Ok
                /\ WithField("header", h).headers = ctx.headers

\* configured as "X-Key", while "x-key" and "X-KEY" are among the other spellings
C6_Witness ==
    /\ ApiKeyReturned /\ result = Ok
    /\ before.config["header"] = HDR_XKEY_MIXED
    /\ EqIgnoreCase(HDR_XKEY_UPPER, before.config["header"])
    /\ EqIgnoreCase(HDR_XKEY_LOWER, before.config["header"])
    /\ ~EqIgnoreCase(HDR_OTHER, before.config["header"])

\* C7: when get fails, authenticate returns Internal.
C7_StoreFailureIsInternal ==
    (ApiKeyReturned /\ StoreAnswers("Err")) => result.kind = "Internal"

\* the store failed on a reference that was looked up
C7_Witness ==
    /\ ApiKeyReturned /\ StoreAnswers("Err")
    /\ Len(calls) = 1
    /\ result.kind = "Internal"

\* C8: a config without header or without secret_ref, or whose secret_ref is
\* no valid reference once the scheme is stripped, makes authenticate return
\* Internal; a config without prefix is run as the same config with prefix "".
C8_MalformedConfigIsInternal ==
    ApiKeyReturned =>
        /\ ~HasRequiredFields => result.kind = "Internal"
        /\ (HasRequiredFields /\ ~SecretRef_new(raw_ref(before.config["secret_ref"])))
              => result.kind = "Internal"
        /\ "prefix" \notin DOMAIN before.config =>
              /\ WithField("prefix", STR_EMPTY).result = result
              /\ WithField("prefix", STR_EMPTY).headers = ctx.headers

\* a config with header and secret_ref and no prefix, which succeeds
C8_Witness ==
    /\ ApiKeyReturned
    /\ DOMAIN before.config = {"header", "secret_ref"}
    /\ result = Ok
    /\ ctx.headers[to_lowercase(before.config["header"])] = StoredBytes

\* C9: the no-op plugin returns Ok, leaves the context as it was and makes no
\* credstore get call.
C9_NoopChangesNothing ==
    (pc = "done" /\ plugin = "noop") =>
        /\ result = Ok
        /\ ctx = before
        /\ Len(calls) = 0

\* the context had headers to lose, and a config that names a stored secret
C9_Witness ==
    /\ pc = "done" /\ plugin = "noop"
    /\ Cardinality(DOMAIN before.headers) = 2
    /\ StoreAnswers("Some")
    /\ ctx.headers = before.headers

\* C10: after a successful authenticate, whatever headers the context started
\* with, exactly one entry has a name equal to the configured header ignoring
\* case, and its value is prefix followed by the secret.
C10_OneEntryPerHeaderIgnoringCase ==
    (ApiKeyReturned /\ result = Ok) =>
        LET same == {n \in DOMAIN ctx.headers : EqIgnoreCase(n, before.config["header"])}
        IN  /\ Cardinality(same) = 1
            /\ \A n \in same : ctx.headers[n] = GivenPrefix \o StoredBytes

\* no uppercase ASCII letter in the name
IsLowercase(n) == \A i \in 1..Len(n) : n[i] \notin 65..90

\* C10, amended: after a successful authenticate on a context whose headers
\* hold the configured header name, if at all, only in lowercase, exactly one
\* entry has a name equal to the configured header ignoring case, and its
\* value is prefix followed by the secret.
C10_OneEntryWhenStoredLowercase ==
    (ApiKeyReturned /\ result = Ok
        /\ \A n \in DOMAIN before.headers :
              EqIgnoreCase(n, before.config["header"]) => IsLowercase(n)) =>
        LET same == {n \in DOMAIN ctx.headers : EqIgnoreCase(n, before.config["header"])}
        IN  /\ Cardinality(same) = 1
            /\ \A n \in same : ctx.headers[n] = GivenPrefix \o StoredBytes

\* the last write wins: "x-key" held "old", the config says "X-Key"
C10_Witness ==
    /\ ApiKeyReturned /\ result = Ok
    /\ before.config["header"] = HDR_XKEY_MIXED
    /\ HDR_XKEY_LOWER \in DOMAIN before.headers
    /\ HDR_XKEY_MIXED \notin DOMAIN before.headers
    /\ before.headers[HDR_XKEY_LOWER] = STR_OLD
    /\ ctx.headers[HDR_XKEY_LOWER] = GivenPrefix \o StoredBytes
    /\ DOMAIN ctx.headers = DOMAIN before.headers

\* C11: whenever the api-key plugin returns an error, whichever it is, the
\* headers of the context are what they were before the call: nothing added,
\* removed or changed.
C11_FailureLeavesHeadersAlone ==
    (ApiKeyReturned /\ result.kind # "Ok") =>
        /\ result.kind \in {"SecretNotFound", "Internal"}
        /\ ctx.headers = before.headers
        /\ ctx = before

\* the secret was missing, the context had headers and a header to write
C11_Witness ==
    /\ ApiKeyReturned /\ result.kind = "SecretNotFound"
    /\ HasRequiredFields
    /\ Cardinality(DOMAIN before.headers) = 2
    /\ to_lowercase(before.config["header"]) \notin DOMAIN before.headers
    /\ ctx.headers = before.headers

\* C12: a successful authenticate changes only the entry under the lowercased
\* header: every other entry is still there with its value, no other name is
\* added, and config and security_context are what they were.
C12_SuccessWritesOneEntry ==
    (ApiKeyReturned /\ result = Ok) =>
        LET written == to_lowercase(before.config["header"]) IN
        /\ DOMAIN ctx.headers = (DOMAIN before.headers) \cup {written}
        /\ \A n \in (DOMAIN before.headers) \ {written} :
              ctx.headers[n] = before.headers[n]
        /\ ctx.config = before.config
        /\ ctx.security_context = before.security_context

\* "X-Key" and "via" were there, "x-key" is written beside them
C12_Witness ==
    /\ ApiKeyReturned /\ result = Ok
    /\ before.config["header"] = HDR_XKEY_MIXED
    /\ DOMAIN before.headers = {HDR_XKEY_MIXED, HDR_OTHER}
    /\ DOMAIN ctx.headers = {HDR_XKEY_MIXED, HDR_OTHER, HDR_XKEY_LOWER}
    /\ ctx.headers[HDR_XKEY_MIXED] = STR_OLD
    /\ ctx.headers[HDR_OTHER] = STR_OLD

\* C13: a call of the api-key plugin makes at most one credstore get, under
\* the security_context of its AuthContext and for the normalized reference;
\* it makes none when the config is malformed or the reference invalid, and
\* it writes no header without having made one.
C13_OneScopedLookup ==
    ApiKeyReturned =>
        /\ Len(calls) <= 1
        /\ \A i \in 1..Len(calls) :
              /\ HasRequiredFields
              /\ calls[i].security_context = before.security_context
              /\ calls[i].key = raw_ref(before.config["secret_ref"])
              /\ SecretRef_new(calls[i].key)
        /\ ~HasRequiredFields => Len(calls) = 0
        /\ (HasRequiredFields /\ ~SecretRef_new(raw_ref(before.config["secret_ref"])))
              => Len(calls) = 0
        /\ (result = Ok \/ ctx.headers # before.headers) => Len(calls) = 1

\* the caller is tenant-b, the reference carries the scheme, the lookup is for "k"
C13_Witness ==
    /\ ApiKeyReturned /\ HasRequiredFields
    /\ before.security_context = "tenant-b"
    /\ before.config["secret_ref"] = CRED_SCHEME \o STR_K
    /\ calls = <<[security_context |-> "tenant-b", key |-> STR_K]>>
    /\ result = Ok

====
